---- MODULE Spec2Model ----
(***************************************************************************)
(* Model of docs/notebooks/4.minerva_setr_pup_pipeline.ipynb:              *)
(*   - Padding            the reflective-pad transform (shape arithmetic)   *)
(*   - F3DataModule       the stage -> dataset mapping, setup and the four  *)
(*                        dataloader accessors                              *)
(*   - pipeline.run       the runner that drives a stage on a data module   *)
(***************************************************************************)
EXTENDS Integers, Sequences, FiniteSets, TLC

VARIABLES
    datasets,   \* F3DataModule.datasets: dict key -> dataset object
    config,     \* F3DataModule configuration fields set by __init__
    ctor,       \* the arguments and host the data module was constructed with
    nextId,     \* identity of the next object the interpreter allocates
    last,       \* the most recent call on the data module and how it ended
    pc,         \* position of pipeline.run: idle / loaders / engine / record
    runStage,   \* the task argument of the run in progress
    trace,      \* what the run in progress has called so far, in order
    loaders,    \* the loaders the run in progress has fetched
    engineOut,  \* outcome of the engine entrypoint of the run in progress
    engineCalls,\* every entrypoint call the engine has received, with its outcome
    status,     \* the pipeline's run-status record
    saved,      \* the run-status record as last written to durable storage
    persistOut, \* how the last write of the run-status record ended
    runOut,     \* what the last pipeline.run returned or raised to its caller
    x_shape,    \* shape of the array handed to Padding.__call__
    target,     \* <<target_h_size, target_w_size>> of the Padding object
    out,        \* what Padding.__call__ produced
    readers,    \* the counts of the readers a PairedDataset is built from
    pds,        \* the PairedDataset built from them, or how building it failed
    fetched     \* the last get(i) on that dataset: the index and the result

dmVars == <<datasets, config, ctor, nextId, last>>
runVars == <<pc, runStage, trace, loaders, engineOut, engineCalls, status, saved,
             persistOut, runOut>>
padVars == <<x_shape, target, out, readers, pds, fetched>>
vars == <<datasets, config, ctor, nextId, last, pc, runStage, trace, loaders,
          engineOut, engineCalls, status, saved, persistOut, runOut, x_shape,
          target, out, readers, pds, fetched>>

----------------------------------------------------------------------------
(* Bounds *)

MaxCount == 1      \* a reader reports 0..MaxCount samples
MaxBuilds == 6     \* dataset objects allocated over one behaviour
MaxRuns == 3       \* entries the run-status record may hold
MaxWorkers == 1    \* explicit num_workers argument ranges over 0..MaxWorkers
MaxCpu == 2        \* os.cpu_count() ranges over 1..MaxCpu
MaxDim == 3        \* every axis of an input array, and each target, is 0..MaxDim
MaxRank == 4       \* an input array has 0..MaxRank axes
MaxReaders == 3    \* a PairedDataset is built from 1..MaxReaders readers
MaxLen == 3        \* each of those readers reports 0..MaxLen samples

----------------------------------------------------------------------------
(* Vocabulary *)

Keys == {"train", "val", "test", "predict"}
ValidStages == {"fit", "test", "predict"}
NoneStage == "None"                       \* the default stage=None
StageArgs == ValidStages \cup {"bogus", NoneStage}
Splits == {"train", "val", "test"}
EmptyDict == [k \in {} |-> 0]

Max(a, b) == IF a >= b THEN a ELSE b

\* d[k] = v on a Python dict
SetItem(d, k, v) == [x \in (DOMAIN d) \cup {k} |-> IF x = k THEN v ELSE d[x]]

----------------------------------------------------------------------------
(* minerva SupervisedReconstructionDataset(readers=[img, label], transforms):  *)
(* the PairedDataset of the specification.  counts is the pair of counts the   *)
(* two readers report; construction fails when they differ.                    *)

NoDataset == [id |-> 0, split |-> "none"]

\* an alignment test that compares the first two readers only
Aligned_first_two(counts) == Len(counts) < 2 \/ counts[1] = counts[2]

\* all readers report the same count
Aligned(counts) == \A i, j \in 1..Len(counts) : counts[i] = counts[j]

SupervisedReconstructionDataset(counts, split, id) ==
    IF Aligned(counts)
    THEN [ok |-> TRUE, obj |-> [id |-> id, split |-> split]]
    ELSE [ok |-> FALSE, obj |-> NoDataset]

\* PairedDataset(readers, transform): counts[j] is the count of reader j
PairedDataset_init(counts) ==
    IF Aligned(counts)
    THEN [outcome |-> "ok", readers |-> counts, n |-> counts[1]]
    ELSE [outcome |-> "AlignmentError", readers |-> <<>>, n |-> 0]

\* length()
PairedDataset_length(d) == d.n

\* reader j's raw sample at index i, and the shared transform applied to one
RawSample(j, i) == [reader |-> j, index |-> i, transformed |-> FALSE]
ApplyTransform(sample) == [sample EXCEPT !.transformed = TRUE]

\* a get that reads every element from the first reader
PairedDataset_get_first_reader(d, i) ==
    IF 0 <= i /\ i < d.n
    THEN [outcome |-> "ok",
          value |-> [j \in 1..Len(d.readers) |-> ApplyTransform(RawSample(1, i))]]
    ELSE [outcome |-> "IndexError", value |-> <<>>]

\* get(i)
PairedDataset_get(d, i) ==
    IF 0 <= i /\ i < d.n
    THEN [outcome |-> "ok",
          value |-> [j \in 1..Len(d.readers) |-> ApplyTransform(RawSample(j, i))]]
    ELSE [outcome |-> "IndexError", value |-> <<>>]

NotBuilt == [outcome |-> "none", readers |-> <<>>, n |-> 0]
NotAsked == [index |-> 0, outcome |-> "none", value |-> <<>>]

RECURSIVE CountsOfLen(_)
CountsOfLen(r) ==
    IF r = 0 THEN {<<>>}
    ELSE {Append(c, n) : c \in CountsOfLen(r - 1), n \in 0..MaxLen}

ReaderLists == UNION {CountsOfLen(r) : r \in 1..MaxReaders}

\* PairedDataset(readers, transform)
Construct ==
    /\ pds = NotBuilt
    /\ pds' = PairedDataset_init(readers)
    /\ UNCHANGED <<dmVars, runVars, x_shape, target, out, readers, fetched>>

\* dataset.get(i), on a dataset that was built
Get(i) ==
    /\ pds.outcome = "ok"
    /\ LET r == PairedDataset_get(pds, i)
       IN  fetched' = [index |-> i, outcome |-> r.outcome, value |-> r.value]
    /\ UNCHANGED <<dmVars, runVars, x_shape, target, out, readers, pds>>

----------------------------------------------------------------------------
(* F3DataModule *)

NoneWorkers == -1                         \* num_workers: int = None

\* __init__ that tests the argument for truth: an explicit 0 counts as not given
F3DataModule_init_falsy(num_workers, cpu_count) ==
    [train_path |-> "train_path",
     annotations_path |-> "annotations_path",
     transforms |-> "transform",
     batch_size |-> 1,
     num_workers |-> IF num_workers # NoneWorkers /\ num_workers # 0
                     THEN num_workers ELSE cpu_count]

\* __init__: the configuration fields and the empty datasets dict
F3DataModule_init(num_workers, cpu_count) ==
    [train_path |-> "train_path",
     annotations_path |-> "annotations_path",
     transforms |-> "transform",
     batch_size |-> 1,
     num_workers |-> IF num_workers # NoneWorkers THEN num_workers ELSE cpu_count]

\* the reader directories one setup(stage) call opens
SplitsRead(stage) ==
    IF stage = "fit" THEN {"train", "val"}
    ELSE IF stage = "test" \/ stage = "predict" THEN {"test"}
    ELSE {}

CountPairs == (0..MaxCount) \X (0..MaxCount)

Raised(ds, id, err) == [datasets |-> ds, nextId |-> id, outcome |-> err]

\* the fit branch with the second assignment missing: "val" is never written
setup_fit_train_only(ds, id, fs) ==
    LET train_dataset == SupervisedReconstructionDataset(fs["train"], "train", id)
        val_dataset == SupervisedReconstructionDataset(fs["val"], "val", id + 1)
    IN  IF ~train_dataset.ok THEN Raised(ds, id, "AlignmentError")
        ELSE IF ~val_dataset.ok THEN Raised(ds, id, "AlignmentError")
        ELSE [datasets |-> SetItem(ds, "train", train_dataset.obj),
              nextId |-> id + 2,
              outcome |-> "ok"]

\* the fit branch extending a dataset already present instead of replacing it
setup_fit_incremental(ds, id, fs) ==
    LET train_dataset == SupervisedReconstructionDataset(fs["train"], "train", id)
        val_dataset == SupervisedReconstructionDataset(fs["val"], "val", id + 1)
        grown(key, obj) ==
            IF key \in DOMAIN ds THEN [obj EXCEPT !.split = "concat"] ELSE obj
    IN  IF ~train_dataset.ok THEN Raised(ds, id, "AlignmentError")
        ELSE IF ~val_dataset.ok THEN Raised(ds, id, "AlignmentError")
        ELSE [datasets |-> SetItem(SetItem(ds, "train", grown("train", train_dataset.obj)),
                                   "val", grown("val", val_dataset.obj)),
              nextId |-> id + 2,
              outcome |-> "ok"]

\* the fit branch replacing the whole dict: self.datasets = {"train": .., "val": ..}
setup_fit_clearing(ds, id, fs) ==
    LET train_dataset == SupervisedReconstructionDataset(fs["train"], "train", id)
        val_dataset == SupervisedReconstructionDataset(fs["val"], "val", id + 1)
    IN  IF ~train_dataset.ok THEN Raised(ds, id, "AlignmentError")
        ELSE IF ~val_dataset.ok THEN Raised(ds, id, "AlignmentError")
        ELSE [datasets |-> SetItem(SetItem(EmptyDict, "train", train_dataset.obj),
                                   "val", val_dataset.obj),
              nextId |-> id + 2,
              outcome |-> "ok"]

\* the fit branch assigning "train" as soon as it is built, before "val" is built
setup_fit_eager(ds, id, fs) ==
    LET train_dataset == SupervisedReconstructionDataset(fs["train"], "train", id)
        val_dataset == SupervisedReconstructionDataset(fs["val"], "val", id + 1)
    IN  IF ~train_dataset.ok THEN Raised(ds, id, "AlignmentError")
        ELSE IF ~val_dataset.ok
             THEN Raised(SetItem(ds, "train", train_dataset.obj), id + 1,
                         "AlignmentError")
        ELSE [datasets |-> SetItem(SetItem(ds, "train", train_dataset.obj),
                                   "val", val_dataset.obj),
              nextId |-> id + 2,
              outcome |-> "ok"]

\* setup, the branch stage == "fit": both datasets are built, then both keys
\* are assigned
setup_fit(ds, id, fs) ==
    LET train_dataset == SupervisedReconstructionDataset(fs["train"], "train", id)
        val_dataset == SupervisedReconstructionDataset(fs["val"], "val", id + 1)
    IN  IF ~train_dataset.ok THEN Raised(ds, id, "AlignmentError")
        ELSE IF ~val_dataset.ok THEN Raised(ds, id, "AlignmentError")
        ELSE [datasets |-> SetItem(SetItem(ds, "train", train_dataset.obj),
                                   "val", val_dataset.obj),
              nextId |-> id + 2,
              outcome |-> "ok"]

\* the test/predict branch building a second dataset for "predict"
setup_eval_two_copies(ds, id, fs) ==
    LET test_dataset == SupervisedReconstructionDataset(fs["test"], "test", id)
        predict_dataset == SupervisedReconstructionDataset(fs["test"], "test", id + 1)
    IN  IF ~test_dataset.ok THEN Raised(ds, id, "AlignmentError")
        ELSE [datasets |-> SetItem(SetItem(ds, "test", test_dataset.obj),
                                   "predict", predict_dataset.obj),
              nextId |-> id + 2,
              outcome |-> "ok"]

\* setup, the branch stage == "test" or stage == "predict": one dataset is
\* built and assigned to both keys
setup_eval(ds, id, fs) ==
    LET test_dataset == SupervisedReconstructionDataset(fs["test"], "test", id)
    IN  IF ~test_dataset.ok THEN Raised(ds, id, "AlignmentError")
        ELSE [datasets |-> SetItem(SetItem(ds, "test", test_dataset.obj),
                                   "predict", test_dataset.obj),
              nextId |-> id + 1,
              outcome |-> "ok"]

\* setup whose "predict" stage reads the validation split
setup_predict_from_val(ds, stage, id, fs) ==
    IF stage = "fit" THEN setup_fit(ds, id, fs)
    ELSE IF stage = "test" THEN setup_eval(ds, id, fs)
    ELSE IF stage = "predict" THEN
        LET r == setup_eval(ds, id, fs)
            predict_dataset == [id |-> id, split |-> "val"]
        IN  IF r.outcome # "ok" THEN r
            ELSE [r EXCEPT !.datasets =
                     SetItem(SetItem(ds, "test", predict_dataset),
                             "predict", predict_dataset)]
    ELSE Raised(ds, id, "ValueError")

\* setup whose default stage=None falls into the fit branch
setup_default_fit(ds, stage, id, fs) ==
    IF stage = "fit" \/ stage = NoneStage
    THEN setup_fit(ds, id, [s \in {"train", "val"} |-> <<0, 0>>])
    ELSE IF stage = "test" \/ stage = "predict" THEN setup_eval(ds, id, fs)
    ELSE Raised(ds, id, "ValueError")

\* setup(self, stage): ds is self.datasets before the call, id the next object
\* identity, fs[split] the counts of the image and label readers of that split
setup(ds, stage, id, fs) ==
    IF stage = "fit" THEN setup_fit(ds, id, fs)
    ELSE IF stage = "test" \/ stage = "predict" THEN setup_eval(ds, id, fs)
    ELSE Raised(ds, id, "ValueError")

NoLoader == [dataset |-> NoDataset, batch_size |-> 0, num_workers |-> 0,
             shuffle |-> FALSE]

\* a lookup that answers a missing key with a default instead of failing
DataLoader_default(ds, key, cfg, shuffle) ==
    [outcome |-> "ok",
     loader |-> [dataset |-> IF key \in DOMAIN ds THEN ds[key] ELSE NoDataset,
                 batch_size |-> cfg.batch_size,
                 num_workers |-> cfg.num_workers, shuffle |-> shuffle]]

\* DataLoader(self.datasets[key], batch_size=..., num_workers=..., shuffle=...)
DataLoader(ds, key, cfg, shuffle) ==
    IF key \in DOMAIN ds
    THEN [outcome |-> "ok",
          loader |-> [dataset |-> ds[key], batch_size |-> cfg.batch_size,
                      num_workers |-> cfg.num_workers, shuffle |-> shuffle]]
    ELSE [outcome |-> "KeyError", loader |-> NoLoader]

\* a train accessor that looks up the wrong key
train_dataloader_reads_test(ds, cfg) ==
    IF "test" \in DOMAIN ds
    THEN [outcome |-> "ok",
          loader |-> [dataset |-> ds["test"], batch_size |-> cfg.batch_size,
                      num_workers |-> cfg.num_workers, shuffle |-> TRUE]]
    ELSE [outcome |-> "KeyError", loader |-> NoLoader]

train_dataloader(ds, cfg) == DataLoader(ds, "train", cfg, TRUE)
val_dataloader(ds, cfg) == DataLoader(ds, "val", cfg, FALSE)
\* a test accessor that looks up the validation dataset
test_dataloader_reads_val(ds, cfg) == DataLoader(ds, "val", cfg, FALSE)

test_dataloader(ds, cfg) == DataLoader(ds, "test", cfg, FALSE)
predict_dataloader(ds, cfg) == DataLoader(ds, "predict", cfg, FALSE)

\* the accessor that serves one dataset key
Accessor(key, ds, cfg) ==
    CASE key = "train" -> train_dataloader(ds, cfg)
      [] key = "val" -> val_dataloader(ds, cfg)
      [] key = "test" -> test_dataloader(ds, cfg)
      [] key = "predict" -> predict_dataloader(ds, cfg)

AccessorName(key) == 
    CASE key = "train" -> "train_dataloader"
      [] key = "val" -> "val_dataloader"
      [] key = "test" -> "test_dataloader"
      [] key = "predict" -> "predict_dataloader"

Call(op, arg, outcome, before, loader) ==
    [op |-> op, arg |-> arg, outcome |-> outcome, before |-> before,
     loader |-> loader]

\* data_module.setup(stage), called by the orchestrator
Setup(stage) ==
    /\ pc = "idle"
    /\ nextId + 1 <= MaxBuilds
    /\ \E fs \in [SplitsRead(stage) -> CountPairs] :
         LET r == setup(datasets, stage, nextId, fs)
         IN  /\ datasets' = r.datasets
             /\ nextId' = r.nextId
             /\ last' = Call("setup", stage, r.outcome, datasets, NoLoader)
    /\ UNCHANGED <<config, ctor, runVars, padVars>>

\* data_module.<key>_dataloader(), called by the orchestrator
Loader(key) ==
    /\ pc = "idle"
    /\ LET r == Accessor(key, datasets, config)
       IN  last' = Call(AccessorName(key), key, r.outcome, datasets, r.loader)
    /\ UNCHANGED <<datasets, config, ctor, nextId, runVars, padVars>>

----------------------------------------------------------------------------
(* pipeline.run(data=data_module, task=stage): the PipelineRunner.             *)
(* Steps: setup(stage); fetch the loader(s) of the stage; call the engine's    *)
(* matching entrypoint; record the outcome in the run-status; return.          *)

Event(ev, arg, ls) == [ev |-> ev, arg |-> arg, loaders |-> ls]

\* the dataset keys whose loaders a stage hands to the engine, in order
LoaderKeys(stage) ==
    CASE stage = "fit" -> <<"train", "val">>
      [] stage = "test" -> <<"test">>
      [] stage = "predict" -> <<"predict">>

\* the engine entrypoint a stage is dispatched to
EngineEntry(stage) ==
    CASE stage = "fit" -> "fit"
      [] stage = "test" -> "test"
      [] stage = "predict" -> "predict"

\* step 1: run calls dataModule.setup(stage); a failure is raised to the caller
RunSetup(stage) ==
    /\ pc = "idle"
    /\ Len(status) < MaxRuns
    /\ nextId + 1 <= MaxBuilds
    /\ \E fs \in [SplitsRead(stage) -> CountPairs] :
         LET r == setup(datasets, stage, nextId, fs)
         IN  /\ datasets' = r.datasets
             /\ nextId' = r.nextId
             /\ last' = Call("setup", stage, r.outcome, datasets, NoLoader)
             /\ pc' = IF r.outcome = "ok" THEN "loaders" ELSE "idle"
             /\ runOut' = IF r.outcome = "ok" THEN "running" ELSE r.outcome
    /\ runStage' = stage
    /\ trace' = <<Event("setup", stage, <<>>)>>
    /\ loaders' = <<>>
    /\ engineOut' = "none"
    /\ persistOut' = "none"
    /\ UNCHANGED <<config, ctor, engineCalls, status, saved, padVars>>

\* step 2: run fetches the loader(s) matching the stage
RunLoaders ==
    /\ pc = "loaders"
    /\ LET keys == LoaderKeys(runStage)
           fetchedLoaders == [i \in 1..Len(keys) |-> Accessor(keys[i], datasets, config)]
           ok == \A i \in 1..Len(keys) : fetchedLoaders[i].outcome = "ok"
           lastKey == keys[Len(keys)]
       IN  /\ loaders' = IF ok THEN [i \in 1..Len(keys) |-> fetchedLoaders[i].loader] ELSE <<>>
           /\ trace' = trace \o [i \in 1..Len(keys) |-> Event("loader", keys[i], <<>>)]
           /\ last' = Call(AccessorName(lastKey), lastKey, fetchedLoaders[Len(keys)].outcome,
                           datasets, fetchedLoaders[Len(keys)].loader)
           /\ pc' = IF ok THEN "engine" ELSE "idle"
           /\ runOut' = IF ok THEN "running" ELSE "KeyError"
    /\ UNCHANGED <<datasets, config, ctor, nextId, runStage, engineOut,
                   engineCalls, status, saved, persistOut, padVars>>

\* step 3: run delegates to the engine entrypoint, which returns or raises
RunEngine ==
    /\ pc = "engine"
    /\ \E o \in {"ok", "EngineFailure"} :
         /\ engineOut' = o
         /\ engineCalls' = Append(engineCalls,
                                  [stage |-> EngineEntry(runStage), outcome |-> o])
    /\ trace' = Append(trace, Event("engine", EngineEntry(runStage), loaders))
    /\ pc' = "record"
    /\ UNCHANGED <<dmVars, runStage, loaders, status, saved, persistOut, runOut,
                   padVars>>

\* a run-status kept as one slot per stage: a repeated stage overwrites its entry
RecordStatus_per_stage(st, stage, outcome) ==
    IF \E i \in 1..Len(st) : st[i].stage = stage
    THEN [i \in 1..Len(st) |->
            IF st[i].stage = stage THEN [stage |-> stage, outcome |-> outcome]
            ELSE st[i]]
    ELSE Append(st, [stage |-> stage, outcome |-> outcome])

\* step 4: the entrypoint's outcome is appended to the run-status record
RecordStatus(st, stage, outcome) ==
    Append(st, [stage |-> stage, outcome |-> outcome])

\* a run that reports the failure of the write in place of the engine's outcome
RunOutcome_masked(engine, persist) ==
    IF persist = "PersistError" THEN "PersistError" ELSE engine

\* step 5 and the propagation policy: the caller gets the entrypoint's result,
\* or its failure; what happened to the write of the record does not change it
RunOutcome(engine, persist) == engine

\* steps 4 and 5: run records the outcome, writes the record to durable
\* storage (save_run_status=True), which may fail, and returns or re-raises
RunRecord ==
    /\ pc = "record"
    /\ status' = RecordStatus(status, runStage, engineOut)
    /\ \E p \in {"saved", "PersistError"} :
         /\ persistOut' = p
         /\ saved' = IF p = "saved" THEN status' ELSE saved
         /\ runOut' = RunOutcome(engineOut, p)
    /\ trace' = Append(trace, Event("status", runStage, <<>>))
    /\ pc' = "idle"
    /\ UNCHANGED <<dmVars, runStage, loaders, engineOut, engineCalls, padVars>>

----------------------------------------------------------------------------
(* Padding *)

NoOutput == <<>>

\* np.pad(x, pad_width, mode="reflect") on one axis of length n, padding
\* (0, pad): an empty axis cannot be extended
PadAxisOk(n, pad) == ~(n = 0 /\ pad > 0)

\* padding that also cuts an axis longer than the target down to the target
padded_shape_crop(shape, th, tw) ==
    LET h == shape[1]
        w == shape[2]
        pad_h == Max(0, th - h)
        pad_w == Max(0, tw - w)
    IN  IF Len(shape) = 2 THEN
            IF PadAxisOk(h, pad_h) /\ PadAxisOk(w, pad_w)
            THEN <<th, tw, 1>>
            ELSE NoOutput
        ELSE
            IF Len(shape) = 3 /\ PadAxisOk(h, pad_h) /\ PadAxisOk(w, pad_w)
            THEN <<th, tw, shape[3]>>
            ELSE NoOutput

\* the shape of `padded` before the transpose, NoOutput when np.pad raises:
\* a 2-D array is padded on both axes and gets a trailing axis of length 1,
\* any other array is padded with three (before, after) pairs, which np.pad
\* accepts for 3-D arrays only
padded_shape(shape, th, tw) ==
    LET h == shape[1]
        w == shape[2]
        pad_h == Max(0, th - h)
        pad_w == Max(0, tw - w)
    IN  IF Len(shape) = 2 THEN
            IF PadAxisOk(h, pad_h) /\ PadAxisOk(w, pad_w)
            THEN <<h + pad_h, w + pad_w, 1>>
            ELSE NoOutput
        ELSE
            IF Len(shape) = 3 /\ PadAxisOk(h, pad_h) /\ PadAxisOk(w, pad_w)
            THEN <<h + pad_h, w + pad_w, shape[3]>>
            ELSE NoOutput

\* np.transpose(a, axes) on shapes; axes are counted from 0
np_transpose(shape, axes) == [i \in 1..Len(axes) |-> shape[axes[i] + 1]]

\* __call__ without the final transpose: the output stays channel-last
Padding_call_channel_last(shape, th, tw) ==
    IF Len(shape) < 2 THEN [outcome |-> "ValueError", shape |-> NoOutput]
    ELSE LET padded == padded_shape(shape, th, tw)
         IN  IF padded = NoOutput
             THEN [outcome |-> "ValueError", shape |-> NoOutput]
             ELSE [outcome |-> "ok", shape |-> padded]

\* __call__ that promotes a 0-D or 1-D input to two dimensions first
Padding_call_atleast_2d(shape, th, tw) ==
    LET x == IF Len(shape) = 0 THEN <<1, 1>>
             ELSE IF Len(shape) = 1 THEN <<1, shape[1]>>
             ELSE shape
        padded == padded_shape(x, th, tw)
    IN  IF padded = NoOutput
        THEN [outcome |-> "ValueError", shape |-> NoOutput]
        ELSE [outcome |-> "ok", shape |-> np_transpose(padded, <<2, 0, 1>>)]

\* Padding.__call__(self, x): shape is x.shape, th and tw the target sizes.
\* h, w = x.shape[:2] raises ValueError when x has fewer than two axes.
Padding_call(shape, th, tw) ==
    IF Len(shape) < 2 THEN [outcome |-> "ValueError", shape |-> NoOutput]
    ELSE LET padded == padded_shape(shape, th, tw)
         IN  IF padded = NoOutput
             THEN [outcome |-> "ValueError", shape |-> NoOutput]
             ELSE [outcome |-> "ok", shape |-> np_transpose(padded, <<2, 0, 1>>)]

Dims == 0..MaxDim

RECURSIVE ShapesOfRank(_)
ShapesOfRank(r) ==
    IF r = 0 THEN {<<>>}
    ELSE {Append(s, d) : s \in ShapesOfRank(r - 1), d \in Dims}

Shapes == UNION {ShapesOfRank(r) : r \in 0..MaxRank}

NotCalled == [outcome |-> "none", shape |-> NoOutput]

\* transform(x)
Transform ==
    /\ out = NotCalled
    /\ out' = Padding_call(x_shape, target[1], target[2])
    /\ UNCHANGED <<dmVars, runVars, x_shape, target, readers, pds, fetched>>

----------------------------------------------------------------------------
(* Specifications *)

InitModule ==
    /\ datasets = EmptyDict
    /\ \E nw \in {NoneWorkers} \cup (0..MaxWorkers), cpu \in 1..MaxCpu :
         /\ ctor = [num_workers |-> nw, cpu_count |-> cpu]
         /\ config = F3DataModule_init(nw, cpu)
    /\ nextId = 1
    /\ last = Call("init", "none", "ok", EmptyDict, NoLoader)
    /\ pc = "idle"
    /\ runStage = "none"
    /\ trace = <<>>
    /\ loaders = <<>>
    /\ engineOut = "none"
    /\ status = <<>>
    /\ engineCalls = <<>>
    /\ saved = <<>>
    /\ persistOut = "none"
    /\ runOut = "none"

Init ==
    /\ InitModule
    /\ x_shape = <<>>
    /\ target = <<0, 0>>
    /\ out = NotCalled
    /\ readers = <<0>>
    /\ pds = NotBuilt
    /\ fetched = NotAsked

\* the orchestrator calls setup and the accessors on one data module
Next ==
    \/ \E stage \in StageArgs : Setup(stage)
    \/ \E key \in Keys : Loader(key)

Spec == Init /\ [][Next]_vars

\* the notebook: every use of the data module goes through pipeline.run
NextRun ==
    \/ \E stage \in StageArgs : RunSetup(stage)
    \/ RunLoaders
    \/ RunEngine
    \/ RunRecord

\* data_module = F3DataModule(..., batch_size=1): num_workers is not given
InitRun ==
    /\ Init
    /\ ctor.num_workers = NoneWorkers

SpecRun == InitRun /\ [][NextRun]_vars

InitTransform ==
    /\ InitModule
    /\ ctor = [num_workers |-> NoneWorkers, cpu_count |-> 1]
    /\ x_shape \in Shapes
    /\ target \in Dims \X Dims
    /\ out = NotCalled
    /\ readers = <<0>>
    /\ pds = NotBuilt
    /\ fetched = NotAsked

NextTransform == Transform

SpecTransform == InitTransform /\ [][NextTransform]_vars

InitDataset ==
    /\ InitModule
    /\ ctor = [num_workers |-> NoneWorkers, cpu_count |-> 1]
    /\ x_shape = <<>>
    /\ target = <<0, 0>>
    /\ out = NotCalled
    /\ readers \in ReaderLists
    /\ pds = NotBuilt
    /\ fetched = NotAsked

NextDataset ==
    \/ Construct
    \/ \E i \in -1..(MaxLen + 1) : Get(i)

SpecDataset == InitDataset /\ [][NextDataset]_vars

----------------------------------------------------------------------------
(* Properties of F3DataModule, checked under Spec *)

KeySet == DOMAIN datasets
FitKeys == {"train", "val"}
EvalKeys == {"test", "predict"}

\* the dataset keys the specification assigns to a stage
StageKeys(stage) == IF stage = "fit" THEN FitKeys ELSE EvalKeys

AccessorNames == {AccessorName(k) : k \in Keys}
SetupSucceeded == last.op = "setup" /\ last.outcome = "ok"

\* which split each key's dataset was built from, identities left out
View(d) == [k \in DOMAIN d |-> d[k].split]

\* C1 as stated: the module is always in one of the three states Empty,
\* FitReady, EvalReady, and a successful setup(stage) leaves populated exactly
\* the keys of that stage.
C1_ThreeStates ==
    /\ KeySet \in {{}, FitKeys, EvalKeys}
    /\ SetupSucceeded => KeySet = StageKeys(last.arg)

\* C1 as amended: the module is always in one of the four states Empty,
\* FitReady, EvalReady or all four keys present, and a successful setup(stage)
\* leaves populated exactly the keys of that stage together with the keys that
\* were populated before the call.
C1_FourStates ==
    /\ KeySet \in {{}, FitKeys, EvalKeys, Keys}
    /\ SetupSucceeded => KeySet = (DOMAIN last.before) \cup StageKeys(last.arg)

C1_Witness ==
    /\ SetupSucceeded
    /\ last.arg = "test"
    /\ DOMAIN last.before = FitKeys
    /\ KeySet = Keys

\* C2: setup("fit") on a fresh module populates exactly {train, val}; then
\* train_dataloader and val_dataloader succeed, test_dataloader and
\* predict_dataloader fail.
C2_FitOnFresh ==
    (SetupSucceeded /\ last.arg = "fit" /\ last.before = EmptyDict) =>
        /\ KeySet = FitKeys
        /\ train_dataloader(datasets, config).outcome = "ok"
        /\ val_dataloader(datasets, config).outcome = "ok"
        /\ test_dataloader(datasets, config).outcome = "KeyError"
        /\ predict_dataloader(datasets, config).outcome = "KeyError"

C2_Witness ==
    /\ SetupSucceeded
    /\ last.arg = "fit"
    /\ last.before = EmptyDict
    /\ datasets["train"].split = "train"

\* C3: setup with a stage outside {fit, test, predict}, the default None
\* included, fails and leaves the mapping exactly as it was.
C3_InvalidStage ==
    (last.op = "setup" /\ last.arg \notin ValidStages) =>
        /\ last.outcome = "ValueError"
        /\ datasets = last.before

C3_Witness ==
    /\ last.op = "setup"
    /\ last.arg = NoneStage
    /\ last.outcome = "ValueError"
    /\ DOMAIN last.before = FitKeys

\* C4: test and predict are both absent or both present, and when present
\* they are one and the same dataset object, built from the test split.
C4_TestPredictAlias ==
    /\ ("test" \in KeySet) <=> ("predict" \in KeySet)
    /\ "test" \in KeySet =>
         /\ datasets["test"].id = datasets["predict"].id
         /\ datasets["test"] = datasets["predict"]
         /\ datasets["test"].split = "test"

C4_Witness ==
    /\ SetupSucceeded
    /\ last.arg = "predict"
    /\ "test" \in DOMAIN last.before
    /\ datasets["predict"].id # last.before["predict"].id

\* C5: an accessor succeeds exactly when its key has been built, fails with
\* an error otherwise, hands out a loader over that key's dataset, and leaves
\* the mapping unchanged either way.
C5_Accessors ==
    last.op \in AccessorNames =>
        /\ last.outcome = "ok" <=> last.arg \in DOMAIN last.before
        /\ last.arg \notin DOMAIN last.before => last.outcome = "KeyError"
        /\ last.outcome = "ok" => last.loader.dataset = last.before[last.arg]
        /\ datasets = last.before

C5_Witness ==
    /\ last.op = "test_dataloader"
    /\ last.outcome = "KeyError"
    /\ KeySet = FitKeys

\* C6: from every reachable state and for every stage, setup(stage) called
\* twice in a row leaves the same keys, bound to datasets built from the same
\* splits, as setup(stage) called once.
C6_SetupIdempotent ==
    \A stage \in ValidStages :
      \A fs1 \in [SplitsRead(stage) -> CountPairs] :
        LET once == setup(datasets, stage, nextId, fs1)
            again == setup(once.datasets, stage, once.nextId, fs1)
        IN  /\ View(again.datasets) = View(once.datasets)
            /\ again.outcome = once.outcome
            /\ once.outcome = "ok" =>
                 \A fs2 \in [SplitsRead(stage) -> CountPairs] :
                   View(setup(once.datasets, stage, once.nextId, fs2).datasets)
                     = View(once.datasets)

\* a state reached by a second setup("fit"): the datasets were rebuilt
C6_Witness ==
    /\ SetupSucceeded
    /\ last.arg = "fit"
    /\ FitKeys \subseteq DOMAIN last.before
    /\ datasets # last.before
    /\ View(datasets) = View(last.before)

----------------------------------------------------------------------------
(* Properties of Padding, checked under SpecTransform *)

Called == out # NotCalled
Produced == out.outcome = "ok"
InRank == Len(x_shape)

C8_ChannelFirst ==
    Produced =>
        /\ Len(out.shape) = 3
        /\ InRank = 2 => out.shape[1] = 1
        /\ InRank = 3 => out.shape[1] = x_shape[3]
        /\ out.shape[2] >= x_shape[1]
        /\ out.shape[3] >= x_shape[2]

C8_Witness ==
    /\ Produced
    /\ InRank = 3
    /\ x_shape[3] = 2
    /\ x_shape[1] = 1
    /\ target[1] = 3
    /\ out.shape = <<2, 3, Max(x_shape[2], target[2])>>

\* C9: applied to an input with fewer than two dimensions the transform
\* fails and produces no output.
C9_TooFewDims ==
    (Called /\ InRank < 2) =>
        /\ out.outcome = "ValueError"
        /\ out.shape = NoOutput

C9_Witness ==
    /\ Called
    /\ InRank = 1
    /\ x_shape[1] > 0
    /\ ~Produced

----------------------------------------------------------------------------
(* Properties of pipeline.run, checked under SpecRun *)

EngineEvents == {i \in 1..Len(trace) : trace[i].ev = "engine"}

\* the loaders the specification hands to the engine for a stage
ExpectedLoaders(stage) ==
    IF stage = "fit" THEN <<"train", "val">>
    ELSE IF stage = "test" THEN <<"test">>
    ELSE <<"predict">>

\* the run in progress, or the last one, got past setup and the loaders
RunReachedEngine == pc = "record" \/ (pc = "idle" /\ Len(trace) > 1)

\* C10: a run for a stage in {fit, test, predict} calls setup(stage) first,
\* then fetches the loaders of that stage, then invokes one engine entrypoint,
\* the one named by the stage, with exactly those loaders; no run invokes a
\* second entrypoint, and a run whose setup succeeded invokes one.
C10_RunDispatch ==
    /\ Cardinality(EngineEvents) <= 1
    /\ \A i \in EngineEvents :
         LET keys == ExpectedLoaders(runStage)
         IN  /\ runStage \in ValidStages
             /\ trace[1] = Event("setup", runStage, <<>>)
             /\ i = Len(keys) + 2
             /\ \A j \in 1..Len(keys) : trace[j + 1] = Event("loader", keys[j], <<>>)
             /\ trace[i].arg = runStage
             /\ Len(trace[i].loaders) = Len(keys)
             /\ \A j \in 1..Len(keys) :
                  /\ trace[i].loaders[j].dataset = datasets[keys[j]]
                  /\ trace[i].loaders[j].shuffle = (keys[j] = "train")
    /\ RunReachedEngine => Cardinality(EngineEvents) = 1

\* the notebook's three runs on one data module, the last one finished
C10_Witness ==
    /\ pc = "idle"
    /\ Len(status) = 3
    /\ [i \in 1..3 |-> status[i].stage] = <<"fit", "test", "predict">>
    /\ Cardinality(EngineEvents) = 1
    /\ trace[3] = Event("engine", "predict", loaders)

\* the last run went through all of its steps
RunFinished == pc = "idle" /\ trace # <<>> /\ trace[Len(trace)].ev = "status"

\* C11: a run with a stage outside {fit, test, predict} fails inside setup:
\* no loader is fetched, no engine entrypoint is invoked, the datasets are as
\* they were, nothing is recorded or written, and the caller gets the error.
C11_InvalidRun ==
    (runStage \notin ValidStages /\ runStage # "none") =>
        /\ pc = "idle"
        /\ trace = <<Event("setup", runStage, <<>>)>>
        /\ EngineEvents = {}
        /\ loaders = <<>>
        /\ last.op = "setup"
        /\ last.outcome = "ValueError"
        /\ datasets = last.before
        /\ runOut = "ValueError"
        /\ persistOut = "none"
        /\ \A i \in 1..Len(status) : status[i].stage \in ValidStages
        /\ \A i \in 1..Len(engineCalls) : engineCalls[i].stage \in ValidStages

\* an invalid run on a data module and a pipeline that earlier runs have used
C11_Witness ==
    /\ runStage = "bogus"
    /\ runOut = "ValueError"
    /\ Len(status) = 2
    /\ KeySet = Keys

\* C12: the run-status record is append-only: it holds, in call order, one
\* entry for every run that reached the engine and has been recorded, each
\* with the stage and the outcome of that run; no entry is changed or dropped.
C12_AppendOnly ==
    LET recorded == IF pc = "record"
                    THEN SubSeq(engineCalls, 1, Len(engineCalls) - 1)
                    ELSE engineCalls
    IN  status = recorded

\* three recorded runs, one stage repeated, outcomes mixed
C12_Witness ==
    /\ pc = "idle"
    /\ Len(status) = 3
    /\ status[1] = [stage |-> "fit", outcome |-> "EngineFailure"]
    /\ status[2] = [stage |-> "fit", outcome |-> "ok"]
    /\ status[3].stage = "predict"

\* C13: when the engine entrypoint raises, a failure entry for the stage is
\* recorded and the same failure reaches the caller, whether or not the write
\* of the record succeeded; the entrypoint is not invoked a second time.
C13_EngineFailure ==
    (RunFinished /\ engineOut = "EngineFailure") =>
        /\ status[Len(status)] = [stage |-> runStage, outcome |-> "EngineFailure"]
        /\ runOut = "EngineFailure"
        /\ Cardinality(EngineEvents) = 1
        /\ engineCalls[Len(engineCalls)] = status[Len(status)]

\* the engine failed and the write of the record failed too
C13_Witness ==
    /\ RunFinished
    /\ engineOut = "EngineFailure"
    /\ persistOut = "PersistError"
    /\ runOut = "EngineFailure"
    /\ saved # status

----------------------------------------------------------------------------
(* Properties of PairedDataset, checked under SpecDataset *)

Built == pds # NotBuilt
SameCount(counts) == Cardinality({counts[j] : j \in 1..Len(counts)}) <= 1

\* C14: building a PairedDataset from readers with unequal counts fails with
\* an alignment error and yields no dataset; every dataset that exists has
\* readers of one common count.
C14_Alignment ==
    Built =>
        /\ ~SameCount(readers) =>
             /\ pds.outcome = "AlignmentError"
             /\ pds.readers = <<>>
        /\ pds.outcome = "ok" =>
             /\ SameCount(pds.readers)
             /\ pds.readers = readers

\* three readers, the third one short, as in counts (5, 5, 3)
C14_Witness ==
    /\ readers = <<2, 2, 1>>
    /\ pds.outcome = "AlignmentError"

\* C15: over R >= 1 readers of common count N >= 1 the dataset has length N;
\* get(i) for 0 <= i < N returns R elements, element j the transform of
\* reader j's sample at i; any other index fails with an index error.
C15_LengthAndGet ==
    (pds.outcome = "ok" /\ readers[1] >= 1) =>
        LET N == readers[1]
            R == Len(readers)
        IN  /\ PairedDataset_length(pds) = N
            /\ fetched # NotAsked =>
                 IF 0 <= fetched.index /\ fetched.index <= N - 1
                 THEN /\ fetched.outcome = "ok"
                      /\ Len(fetched.value) = R
                      /\ \A j \in 1..R :
                           fetched.value[j] = [reader |-> j, index |-> fetched.index,
                                           transformed |-> TRUE]
                 ELSE /\ fetched.outcome = "IndexError"
                      /\ fetched.value = <<>>

C15_Witness ==
    /\ readers = <<2, 2, 2>>
    /\ fetched.index = 1
    /\ fetched.outcome = "ok"
    /\ Len(fetched.value) = 3

----------------------------------------------------------------------------
(* Further properties of F3DataModule, checked under Spec *)

TestCounts == [{"test"} -> CountPairs]

\* C16: from every reachable state setup("test") and setup("predict") end
\* the same way and leave equal module states: the same keys, test and predict
\* bound to one shared dataset built from the test split.
C16_TestEqualsPredict ==
    \A fs \in TestCounts :
        LET t == setup(datasets, "test", nextId, fs)
            p == setup(datasets, "predict", nextId, fs)
        IN  /\ t = p
            /\ p.outcome = "ok" =>
                 /\ DOMAIN p.datasets = KeySet \cup EvalKeys
                 /\ p.datasets["predict"] = p.datasets["test"]
                 /\ p.datasets["predict"].split = "test"

\* a state setup("predict") produced, which setup("test") would have produced too
C16_Witness ==
    /\ SetupSucceeded
    /\ last.arg = "predict"
    /\ DOMAIN last.before = FitKeys
    /\ \E fs \in TestCounts :
         setup(last.before, "test", nextId - 1, fs).datasets = datasets

\* C17: the configuration is fixed at construction: the worker count is the
\* explicit argument when one was given, 0 included, and the host's unit count
\* at construction otherwise; no setup or accessor call changes any field, and
\* every loader handed out carries these values.
C17_ConfigFixed ==
    LET workers == IF ctor.num_workers = NoneWorkers THEN ctor.cpu_count
                   ELSE ctor.num_workers
    IN  /\ config = [train_path |-> "train_path",
                     annotations_path |-> "annotations_path",
                     transforms |-> "transform",
                     batch_size |-> 1,
                     num_workers |-> workers]
        /\ (last.op \in AccessorNames /\ last.outcome = "ok") =>
             /\ last.loader.num_workers = workers
             /\ last.loader.batch_size = 1

\* an explicit worker count of 0, after successful and failing calls
C17_Witness ==
    /\ ctor.num_workers = 0
    /\ ctor.cpu_count = 2
    /\ config.num_workers = 0
    /\ last.op = "predict_dataloader"
    /\ last.outcome = "KeyError"
    /\ KeySet = FitKeys

\* C18: setup writes only the keys of its own stage and removes none: every
\* entry outside the stage is the object it was before the call, a failed
\* setup changes nothing, the key set never shrinks, and once all four keys
\* are present all four accessors succeed.
C18_SetupFrame ==
    /\ DOMAIN last.before \subseteq KeySet
    /\ last.op = "setup" =>
         \A k \in DOMAIN last.before :
            (k \notin StageKeys(last.arg) \/ last.outcome # "ok")
                => datasets[k] = last.before[k]
    /\ KeySet = Keys =>
         \A k \in Keys : Accessor(k, datasets, config).outcome = "ok"

\* setup("fit") on a module that setup("test") had prepared
C18_Witness ==
    /\ SetupSucceeded
    /\ last.arg = "fit"
    /\ DOMAIN last.before = EvalKeys
    /\ KeySet = Keys
    /\ datasets["test"] = last.before["test"]

\* C19: setup("fit") assigns train and val together or not at all: a fit
\* that fails leaves the mapping as it was, and train is present exactly when
\* val is.
C19_FitAllOrNothing ==
    /\ ("train" \in KeySet) <=> ("val" \in KeySet)
    /\ (last.op = "setup" /\ last.arg = "fit" /\ last.outcome # "ok") =>
         datasets = last.before

\* a fit that failed on a module that held only the test datasets
C19_Witness ==
    /\ last.op = "setup"
    /\ last.arg = "fit"
    /\ last.outcome = "AlignmentError"
    /\ DOMAIN last.before = EvalKeys
    /\ KeySet = EvalKeys

====
